---- MODULE Spec2Model ----
(***************************************************************************)
(* Kernel registration and dispatch of torchvision.transforms.v2.functional *)
(* (src/torchvision/transforms/v2/functional/_utils.py).                    *)
(*                                                                          *)
(* The state is the module-level dictionary _KERNEL_REGISTRY, the decorator *)
(* closures that registration calls have returned and that are still held   *)
(* by a caller, and the outcome of the most recent call.                    *)
(***************************************************************************)
EXTENDS Naturals, Sequences, FiniteSets, TLC

VARIABLES
    registry,    \* _KERNEL_REGISTRY: functional -> (input type -> kernel)
    decorators,  \* the decorator closures still held by callers
    last         \* the most recent call: [op, args, out]

vars == <<registry, decorators, last>>

----------------------------------------------------------------------------
(* Bounds *)

\* Decorator closures held plus registry entries stored, at most.
MaxRegistrations == 2

----------------------------------------------------------------------------
(* Classes and their method-resolution order *)

\* torch.Tensor, a plain subclass of it, the Datapoint marker, one built-in
\* datapoint class and two user-defined datapoint classes (child and grandchild).
Types == {"object", "Tensor", "TensorSub", "Datapoint", "Image", "MyDatapoint", "MySubDatapoint"}

\* cls.__mro__ of each class, most specific first.
__mro__ ==
    [t \in Types |->
        CASE t = "object"         -> <<"object">>
          [] t = "Tensor"         -> <<"Tensor", "object">>
          [] t = "TensorSub"      -> <<"TensorSub", "Tensor", "object">>
          [] t = "Datapoint"      -> <<"Datapoint", "Tensor", "object">>
          [] t = "Image"          -> <<"Image", "Datapoint", "Tensor", "object">>
          [] t = "MyDatapoint"    -> <<"MyDatapoint", "Datapoint", "Tensor", "object">>
          [] t = "MySubDatapoint" -> <<"MySubDatapoint", "MyDatapoint", "Datapoint", "Tensor", "object">>]

Range(s) == {s[i] : i \in DOMAIN s}

\* isinstance(cls, type): the one non-class value offered to register_kernel.
NotAClass == "not_a_class"

isclass(cls) == cls \in Types

issubclass(cls, base) == base \in Range(__mro__[cls])

\* The classes found in the namespace of torchvision.datapoints.
DatapointsNamespace == {"Datapoint", "Image"}

_BUILTIN_DATAPOINT_TYPES == {obj \in DatapointsNamespace : isclass(obj) /\ issubclass(obj, "Datapoint")}

----------------------------------------------------------------------------
(* Functionals *)

\* Callables defined in torchvision.transforms.v2.functional: the registry keys.
Functionals == {"resize", "five_crop"}

\* Objects a caller may pass as the functional of register_kernel.
Objects == {"resize", "user_function", "not_callable"}

callable(obj) == obj # "not_callable"

\* getattr(obj, "__module__", ""): a dotted module name, as the sequence of its parts.
ModuleOf(obj) ==
    CASE obj \in Functionals    -> <<"torchvision", "transforms", "v2", "functional", "_geometry">>
      [] obj = "user_function"  -> <<"__main__">>
      [] OTHER                  -> << >>

NamespacePrefix == <<"torchvision", "transforms", "v2", "functional">>

startswith(s, prefix) == Len(s) >= Len(prefix) /\ SubSeq(s, 1, Len(prefix)) = prefix

\* Strings a caller may pass as the functional of register_kernel.
Names == {"resize", "does_not_exist"}

\* The attributes of the torchvision.transforms.v2.functional namespace.
hasattr(name) == name \in Functionals

FunctionalArgs == [isstr : {TRUE}, v : Names] \cup [isstr : {FALSE}, v : Objects]

----------------------------------------------------------------------------
(* Outcomes of a call *)

Raise(exc, msg) == [kind |-> "raise", exc |-> exc, msg |-> msg]

ReturnKernel(k) == [kind |-> "kernel", kernel |-> k]

ReturnDecorator(d) == [kind |-> "decorator", decorator |-> d]

ReturnValue(v, calls) == [kind |-> "value", value |-> v, calls |-> calls]

----------------------------------------------------------------------------
(* Kernels and the values they work on *)

\* Kernels with one output, and kernels with a collection of outputs.
SingleKernels == {"double", "add"}

MultiKernels == {"five"}

Kernels == SingleKernels \cup MultiKernels

\* A callable: a function fn under the wrappers applied to it, outermost first.
RawKernel(fn) == [fn |-> fn, wrappers |-> <<>>]

Tensor(type, data, meta) == [type |-> type, data |-> data, meta |-> meta, items |-> <<>>]

PureTensor(data) == Tensor("Tensor", data, "none")

Container(type, items) == [type |-> type, data |-> 0, meta |-> "none", items |-> items]

\* inpt.as_subclass(torch.Tensor): the same data, the type and metadata erased.
as_subclass(inpt, cls) == Tensor(cls, inpt.data, "none")

\* datapoints.wrap(wrappee, like=like): the data of wrappee, the type and
\* metadata of like.
wrap(wrappee, like) == Tensor(like.type, wrappee.data, like.meta)

\* What each kernel function computes; operations on a Datapoint return pure tensors.
CallFunction(fn, inpt, arg) ==
    CASE fn = "double" -> PureTensor(inpt.data * 2)
      [] fn = "add"    -> PureTensor(inpt.data + arg)
      [] fn = "five"   -> Container("tuple", <<[type |-> "Tensor", data |-> inpt.data, meta |-> "none"],
                                               [type |-> "Tensor", data |-> inpt.data + arg, meta |-> "none"]>>)

_kernel_datapoint_wrapper(kernel) == [fn |-> kernel.fn, wrappers |-> <<"datapoint">> \o kernel.wrappers]

\* Mutant: the kernel is handed the input as it came.
wrapper_input_not_unwrapped(inpt) == inpt

\* The wrapper made by _kernel_datapoint_wrapper: what it hands to the kernel ...
wrapper_input(inpt) == as_subclass(inpt, "Tensor")

\* ... and what it returns for the kernel's output.
wrapper_output(output, inpt) == wrap(output, inpt)

five_ten_crop_wrap(kernel) == [fn |-> kernel.fn, wrappers |-> <<"five_ten_crop">> \o kernel.wrappers]

\* Mutant: the kernel is handed the plain torch.Tensor view, as the datapoint wrapper does.
five_ten_crop_wrapper_input_unwrapped(inpt) == as_subclass(inpt, "Tensor")

\* The wrapper made by wrap of _register_five_ten_crop_kernel_internal: what it
\* hands to the kernel ...
five_ten_crop_wrapper_input(inpt) == inpt

\* ... and what it returns for the kernel's output, a collection:
\* container_type(datapoints.wrap(o, like=inpt) for o in output)
five_ten_crop_wrapper_output(output, inpt) ==
    Container(output.type,
              [i \in DOMAIN output.items |->
                  LET w == wrap(output.items[i], inpt) IN
                  [type |-> w.type, data |-> w.data, meta |-> w.meta]])

\* lambda inpt, *args, **kwargs: inpt
Passthrough == [fn |-> "lambda", wrappers |-> <<>>]

----------------------------------------------------------------------------
(* Calling a kernel *)

\* kernel(inpt, arg): the value returned and the calls made of kernel functions,
\* each with the input and the argument it was given.
RECURSIVE Invoke(_, _, _)
Invoke(kernel, inpt, arg) ==
    IF kernel = Passthrough
    THEN [out |-> inpt, calls |-> <<>>]
    ELSE IF kernel.wrappers = <<>>
    THEN [out |-> CallFunction(kernel.fn, inpt, arg),
          calls |-> <<[fn |-> kernel.fn, inpt |-> inpt, arg |-> arg]>>]
    ELSE LET inner == [fn |-> kernel.fn, wrappers |-> Tail(kernel.wrappers)] IN
         IF Head(kernel.wrappers) = "datapoint"
         THEN LET r == Invoke(inner, wrapper_input(inpt), arg) IN
              [out |-> wrapper_output(r.out, inpt), calls |-> r.calls]
         ELSE LET r == Invoke(inner, five_ten_crop_wrapper_input(inpt), arg) IN
              [out |-> five_ten_crop_wrapper_output(r.out, inpt), calls |-> r.calls]

----------------------------------------------------------------------------
(* The registry *)

EmptyDict == << >>

\* dict.setdefault(key, {})
setdefault(reg, functional) ==
    IF functional \in DOMAIN reg THEN reg ELSE (functional :> EmptyDict) @@ reg

\* reg[functional][input_type] = kernel
SetItem(reg, functional, input_type, kernel) ==
    [reg EXCEPT ![functional] = (input_type :> kernel) @@ reg[functional]]

\* The (functional, type) pairs that have a kernel stored.
Entries(reg) == {ft \in (DOMAIN reg) \X Types : ft[2] \in DOMAIN reg[ft[1]]}

\* A decorator closure: what it captured of the call that made it.
Decorator(pathway, functional, input_type, datapoint_wrapper) ==
    [pathway |-> pathway, functional |-> functional, input_type |-> input_type,
     datapoint_wrapper |-> datapoint_wrapper]

\* Mutant: the check for an entry already stored is left out.
_register_kernel_internal_unchecked(reg, functional, input_type, datapoint_wrapper) ==
    [registry |-> setdefault(reg, functional),
     out |-> ReturnDecorator(Decorator("internal", functional, input_type, datapoint_wrapper))]

_register_kernel_internal(reg, functional, input_type, datapoint_wrapper) ==
    LET reg1 == setdefault(reg, functional) IN
    IF input_type \in DOMAIN reg1[functional]
    THEN [registry |-> reg1, out |-> Raise("ValueError", "already_registered")]
    ELSE [registry |-> reg1,
          out |-> ReturnDecorator(Decorator("internal", functional, input_type, datapoint_wrapper))]

_register_five_ten_crop_kernel_internal(reg, functional, input_type) ==
    LET reg1 == setdefault(reg, functional) IN
    IF input_type \in DOMAIN reg1[functional]
    THEN [registry |-> reg1, out |-> Raise("TypeError", "already_registered")]
    ELSE [registry |-> reg1,
          out |-> ReturnDecorator(Decorator("five_ten_crop", functional, input_type, FALSE))]

\* Mutant: the wrapper is applied when either condition holds.
StoredKernel_either_condition(d, kernel) ==
    IF d.pathway = "internal"
    THEN IF issubclass(d.input_type, "Datapoint") \/ d.datapoint_wrapper
         THEN _kernel_datapoint_wrapper(kernel)
         ELSE kernel
    ELSE IF issubclass(d.input_type, "Datapoint")
         THEN five_ten_crop_wrap(kernel)
         ELSE kernel

\* The kernel a decorator stores for the kernel it is given.
StoredKernel(d, kernel) ==
    IF d.pathway = "internal"
    THEN IF issubclass(d.input_type, "Datapoint") /\ d.datapoint_wrapper
         THEN _kernel_datapoint_wrapper(kernel)
         ELSE kernel
    ELSE IF issubclass(d.input_type, "Datapoint")
         THEN five_ten_crop_wrap(kernel)
         ELSE kernel

\* Mutant: the decorator returns what it stored.
decorator_returns_stored(reg, d, kernel) ==
    [registry |-> SetItem(reg, d.functional, d.input_type, StoredKernel(d, kernel)),
     out |-> ReturnKernel(StoredKernel(d, kernel))]

\* decorator(kernel) of either pathway: stores, and returns the kernel it was given.
decorator(reg, d, kernel) ==
    [registry |-> SetItem(reg, d.functional, d.input_type, StoredKernel(d, kernel)),
     out |-> ReturnKernel(kernel)]

_name_to_functional(name) ==
    IF hasattr(name)
    THEN [kind |-> "return", functional |-> name]
    ELSE Raise("ValueError", "functional_name_not_found")

\* The functional register_kernel works on: the attribute a name resolves to, or
\* the handle itself when it is a callable of the functional namespace.
ResolveFunctional(functional) ==
    IF functional.isstr
    THEN _name_to_functional(functional.v)
    ELSE IF ~(callable(functional.v) /\ startswith(ModuleOf(functional.v), NamespacePrefix))
         THEN Raise("ValueError", "not_a_v2_functional")
         ELSE [kind |-> "return", functional |-> functional.v]

\* Mutant: the kernel is registered with the automatic datapoint wrapper.
register_kernel_auto_wrap(reg, functional, datapoint_cls) ==
    LET resolved == ResolveFunctional(functional) IN
    IF resolved.kind = "raise"
    THEN [registry |-> reg, out |-> resolved]
    ELSE IF ~(isclass(datapoint_cls) /\ issubclass(datapoint_cls, "Datapoint"))
    THEN [registry |-> reg, out |-> Raise("ValueError", "not_a_datapoint_subclass")]
    ELSE IF datapoint_cls \in _BUILTIN_DATAPOINT_TYPES
    THEN [registry |-> reg, out |-> Raise("ValueError", "builtin_datapoint_class")]
    ELSE _register_kernel_internal(reg, resolved.functional, datapoint_cls, TRUE)

\* Mutant: the built-in datapoint classes are not refused.
register_kernel_builtins_allowed(reg, functional, datapoint_cls) ==
    LET resolved == ResolveFunctional(functional) IN
    IF resolved.kind = "raise"
    THEN [registry |-> reg, out |-> resolved]
    ELSE IF ~(isclass(datapoint_cls) /\ issubclass(datapoint_cls, "Datapoint"))
    THEN [registry |-> reg, out |-> Raise("ValueError", "not_a_datapoint_subclass")]
    ELSE _register_kernel_internal(reg, resolved.functional, datapoint_cls, FALSE)

\* Mutant: the datapoint class is checked before the functional is resolved.
register_kernel_class_first(reg, functional, datapoint_cls) ==
    IF ~(isclass(datapoint_cls) /\ issubclass(datapoint_cls, "Datapoint"))
    THEN [registry |-> reg, out |-> Raise("ValueError", "not_a_datapoint_subclass")]
    ELSE IF datapoint_cls \in _BUILTIN_DATAPOINT_TYPES
    THEN [registry |-> reg, out |-> Raise("ValueError", "builtin_datapoint_class")]
    ELSE LET resolved == ResolveFunctional(functional) IN
         IF resolved.kind = "raise"
         THEN [registry |-> reg, out |-> resolved]
         ELSE _register_kernel_internal(reg, resolved.functional, datapoint_cls, FALSE)

\* Mutant: the functional's bucket is made before the datapoint class is checked.
register_kernel_bucket_first(reg, functional, datapoint_cls) ==
    LET resolved == ResolveFunctional(functional) IN
    IF resolved.kind = "raise"
    THEN [registry |-> reg, out |-> resolved]
    ELSE IF ~(isclass(datapoint_cls) /\ issubclass(datapoint_cls, "Datapoint"))
    THEN [registry |-> setdefault(reg, resolved.functional),
          out |-> Raise("ValueError", "not_a_datapoint_subclass")]
    ELSE IF datapoint_cls \in _BUILTIN_DATAPOINT_TYPES
    THEN [registry |-> setdefault(reg, resolved.functional),
          out |-> Raise("ValueError", "builtin_datapoint_class")]
    ELSE _register_kernel_internal(reg, resolved.functional, datapoint_cls, FALSE)

register_kernel(reg, functional, datapoint_cls) ==
    LET resolved == ResolveFunctional(functional) IN
    IF resolved.kind = "raise"
    THEN [registry |-> reg, out |-> resolved]
    ELSE IF ~(isclass(datapoint_cls) /\ issubclass(datapoint_cls, "Datapoint"))
    THEN [registry |-> reg, out |-> Raise("ValueError", "not_a_datapoint_subclass")]
    ELSE IF datapoint_cls \in _BUILTIN_DATAPOINT_TYPES
    THEN [registry |-> reg, out |-> Raise("ValueError", "builtin_datapoint_class")]
    ELSE _register_kernel_internal(reg, resolved.functional, datapoint_cls, FALSE)

NotFound == [found |-> FALSE]

Found(kernel) == [found |-> TRUE, kernel |-> kernel]

\* Mutant: the walk does not stop at the Datapoint marker.
RECURSIVE Walk_no_cutoff(_, _, _)
Walk_no_cutoff(bucket, mro, i) ==
    IF i > Len(mro)
    THEN NotFound
    ELSE IF mro[i] \in DOMAIN bucket
    THEN Found(bucket[mro[i]])
    ELSE Walk_no_cutoff(bucket, mro, i + 1)

\* Mutant: the walk does not return at the first match, and the last match wins.
RECURSIVE Walk_last_match(_, _, _)
Walk_last_match(bucket, mro, i) ==
    IF i > Len(mro)
    THEN NotFound
    ELSE LET rest == IF mro[i] = "Datapoint" /\ mro[i] \notin DOMAIN bucket
                     THEN NotFound
                     ELSE Walk_last_match(bucket, mro, i + 1)
         IN IF rest.found THEN rest
            ELSE IF mro[i] \in DOMAIN bucket THEN Found(bucket[mro[i]]) ELSE NotFound

\* Mutant: only the class itself is looked up, none of its ancestors.
Walk_exact_type(bucket, mro, i) ==
    IF i <= Len(mro) /\ mro[i] \in DOMAIN bucket THEN Found(bucket[mro[i]]) ELSE NotFound

\* The walk of input_type.__mro__ from position i: the first registered class,
\* stopping at the Datapoint marker.
RECURSIVE Walk(_, _, _)
Walk(bucket, mro, i) ==
    IF i > Len(mro)
    THEN NotFound
    ELSE IF mro[i] \in DOMAIN bucket
    THEN Found(bucket[mro[i]])
    ELSE IF mro[i] = "Datapoint"
    THEN NotFound
    ELSE Walk(bucket, mro, i + 1)

\* _get_kernel once the functional's bucket is in hand: the walk, then the
\* passthrough kernel or the error.
Resolve(reg, bucket, input_type, allow_passthrough) ==
    LET w == Walk(bucket, __mro__[input_type], 1) IN
    IF w.found
    THEN [registry |-> reg, out |-> ReturnKernel(w.kernel)]
    ELSE IF allow_passthrough
    THEN [registry |-> reg, out |-> ReturnKernel(Passthrough)]
    ELSE [registry |-> reg, out |-> Raise("TypeError", "unsupported_input_type")]

\* Mutant: only a missing bucket, not an empty one, is refused.
_get_kernel_none_check(reg, functional, input_type, allow_passthrough) ==
    IF functional \notin DOMAIN reg
    THEN [registry |-> reg, out |-> Raise("ValueError", "no_kernel_for_functional")]
    ELSE Resolve(reg, reg[functional], input_type, allow_passthrough)

\* Mutant: allow_passthrough is ignored.
_get_kernel_no_passthrough(reg, functional, input_type, allow_passthrough) ==
    IF functional \notin DOMAIN reg \/ reg[functional] = EmptyDict
    THEN [registry |-> reg, out |-> Raise("ValueError", "no_kernel_for_functional")]
    ELSE Resolve(reg, reg[functional], input_type, FALSE)

\* Mutant: the bucket is fetched with setdefault, as the registrations do.
_get_kernel_setdefault(reg, functional, input_type, allow_passthrough) ==
    LET reg1 == setdefault(reg, functional) IN
    IF reg1[functional] = EmptyDict
    THEN [registry |-> reg1, out |-> Raise("ValueError", "no_kernel_for_functional")]
    ELSE Resolve(reg1, reg1[functional], input_type, allow_passthrough)

_get_kernel(reg, functional, input_type, allow_passthrough) ==
    IF functional \notin DOMAIN reg \/ reg[functional] = EmptyDict
    THEN [registry |-> reg, out |-> Raise("ValueError", "no_kernel_for_functional")]
    ELSE Resolve(reg, reg[functional], input_type, allow_passthrough)

----------------------------------------------------------------------------
(* The calls a program makes *)

\* The (functional, input type) pairs _register_kernel_internal is called with.
RegPairs ==
    ({"resize"} \X {"Tensor", "MyDatapoint", "MySubDatapoint"}) \cup {<<"five_crop", "Image">>}

\* The (functional, input type) pairs _register_five_ten_crop_kernel_internal is called with.
FiveTenCropPairs == {"five_crop"} \X {"Tensor", "Image"}

\* The values register_kernel is called with as datapoint_cls.
ClsArgs == {NotAClass, "Tensor", "Datapoint", "Image", "MyDatapoint"}

\* The classes _get_kernel is called with.
LookupTypes == Types \ {"object"}

\* The inputs and the extra argument kernels are called with.
Inputs ==
    {Tensor("Tensor", 1, "none"), Tensor("Image", 2, "none"), Tensor("MySubDatapoint", 3, "format_b")}

Args == {0, 1}

NoArgs == [none |-> TRUE]

Call(op, args, out) == [op |-> op, args |-> args, out |-> out]

\* The closures held after a registration call returned out.
Held(out) == IF out.kind = "decorator" THEN decorators \cup {out.decorator} ELSE decorators

WithinBounds(reg, decs) == Cardinality(Entries(reg)) + Cardinality(decs) <= MaxRegistrations

Init ==
    /\ registry = << >>
    /\ decorators = {}
    /\ last = Call("import", NoArgs, [kind |-> "none"])

RegisterKernelInternal(functional, input_type, datapoint_wrapper) ==
    LET r == _register_kernel_internal(registry, functional, input_type, datapoint_wrapper) IN
    /\ WithinBounds(r.registry, Held(r.out))
    /\ registry' = r.registry
    /\ decorators' = Held(r.out)
    /\ last' = Call("_register_kernel_internal",
                    [functional |-> functional, input_type |-> input_type,
                     datapoint_wrapper |-> datapoint_wrapper], r.out)

RegisterFiveTenCropKernelInternal(functional, input_type) ==
    LET r == _register_five_ten_crop_kernel_internal(registry, functional, input_type) IN
    /\ WithinBounds(r.registry, Held(r.out))
    /\ registry' = r.registry
    /\ decorators' = Held(r.out)
    /\ last' = Call("_register_five_ten_crop_kernel_internal",
                    [functional |-> functional, input_type |-> input_type], r.out)

RegisterKernel(functional, datapoint_cls) ==
    LET r == register_kernel(registry, functional, datapoint_cls) IN
    /\ WithinBounds(r.registry, Held(r.out))
    /\ registry' = r.registry
    /\ decorators' = Held(r.out)
    /\ last' = Call("register_kernel",
                    [functional |-> functional, datapoint_cls |-> datapoint_cls], r.out)

\* The kernels a decorator is applied to: a kernel function as defined, or, in a
\* stack of decorators over one definition, what the decorator below returned.
DecoratedKernels ==
    {RawKernel(fn) : fn \in Kernels}
        \cup (IF last.op = "decorator" THEN {last.out.kernel} ELSE {})

\* A held decorator is applied to a kernel; the caller keeps or drops the closure.
\* returned_by records the call that returned the decorator when that call was
\* the one just before, as in "@register_kernel(f, T)" over a definition.
ApplyDecorator(d, kernel, keep) ==
    LET r == decorator(registry, d, kernel) IN
    /\ d \in decorators
    /\ kernel.fn \in (IF d.pathway = "five_ten_crop" THEN MultiKernels ELSE SingleKernels)
    /\ WithinBounds(r.registry, IF keep THEN decorators ELSE decorators \ {d})
    /\ registry' = r.registry
    /\ decorators' = (IF keep THEN decorators ELSE decorators \ {d})
    /\ last' = Call("decorator",
                    [decorator |-> d, kernel |-> kernel,
                     returned_by |-> IF last.out = ReturnDecorator(d) THEN last.op ELSE "earlier"],
                    r.out)

GetKernel(functional, input_type, allow_passthrough) ==
    LET r == _get_kernel(registry, functional, input_type, allow_passthrough) IN
    /\ registry' = r.registry
    /\ UNCHANGED decorators
    /\ last' = Call("_get_kernel",
                    [functional |-> functional, input_type |-> input_type,
                     allow_passthrough |-> allow_passthrough], r.out)

\* The kernel a lookup has just returned is called, as a functional does.
CallKernel(inpt, arg) ==
    /\ last.op = "_get_kernel"
    /\ last.out.kind = "kernel"
    /\ LET r == Invoke(last.out.kernel, inpt, arg) IN
       last' = Call("kernel", [kernel |-> last.out.kernel, inpt |-> inpt, arg |-> arg],
                    ReturnValue(r.out, r.calls))
    /\ UNCHANGED <<registry, decorators>>

Next ==
    \/ \E p \in RegPairs, w \in BOOLEAN : RegisterKernelInternal(p[1], p[2], w)
    \/ \E p \in FiveTenCropPairs : RegisterFiveTenCropKernelInternal(p[1], p[2])
    \/ \E f \in FunctionalArgs, c \in ClsArgs : RegisterKernel(f, c)
    \/ \E d \in decorators, k \in DecoratedKernels, keep \in BOOLEAN : ApplyDecorator(d, k, keep)
    \/ \E f \in Functionals, t \in LookupTypes, a \in BOOLEAN : GetKernel(f, t, a)
    \/ \E x \in Inputs, a \in Args : CallKernel(x, a)

Spec == Init /\ [][Next]_vars

----------------------------------------------------------------------------
(* Vocabulary of the properties *)

\* The bucket of a functional, empty when the functional has none.
Bucket(functional) == IF functional \in DOMAIN registry THEN registry[functional] ELSE << >>

\* The functional has at least one kernel stored.
HasKernels(functional) == DOMAIN Bucket(functional) # {}

\* The position of the Datapoint marker in an MRO that holds it.
MarkerIndex(mro) == CHOOSE i \in DOMAIN mro : mro[i] = "Datapoint"

\* The classes of cls.__mro__ up to and including the Datapoint marker; the whole
\* MRO of a class that is no Datapoint.
UpToMarker(cls) ==
    IF "Datapoint" \in Range(__mro__[cls])
    THEN {__mro__[cls][i] : i \in 1..MarkerIndex(__mro__[cls])}
    ELSE Range(__mro__[cls])

\* The first class of cls.__mro__, among those in among, registered for functional.
FirstRegistered(functional, cls, among) ==
    LET mro == __mro__[cls]
        hit(i) == mro[i] \in among /\ mro[i] \in DOMAIN Bucket(functional)
    IN mro[CHOOSE i \in DOMAIN mro : hit(i) /\ \A j \in 1..(i - 1) : ~hit(j)]

\* A functional argument register_kernel accepts, and a class it accepts.
AcceptedFunctional(arg) == arg.v \in Functionals

CustomDatapointClass(cls) ==
    cls \in Types /\ "Datapoint" \in Range(__mro__[cls]) /\ cls \notin {"Datapoint", "Image"}

IsLookup == last.op = "_get_kernel"

\* The last call was an attempt to register a kernel for (functional, type) ft
\* through _register_kernel_internal, directly or through register_kernel.
RegistrationAttempt(ft) ==
    \/ /\ last.op = "_register_kernel_internal"
       /\ <<last.args.functional, last.args.input_type>> = ft
    \/ /\ last.op = "register_kernel"
       /\ AcceptedFunctional(last.args.functional)
       /\ CustomDatapointClass(last.args.datapoint_cls)
       /\ <<last.args.functional.v, last.args.datapoint_cls>> = ft

DuplicateError == Raise("ValueError", "already_registered")

NotRecognizedError == Raise("ValueError", "no_kernel_for_functional")

NoKernelForTypeError == Raise("TypeError", "unsupported_input_type")

----------------------------------------------------------------------------
(* Properties *)

\* C1: a call of _register_kernel_internal, made directly or through
\* register_kernel, for a (functional, type) pair that has a kernel stored raises
\* the duplicate-registration error, leaves the registry as it was, and
\* _get_kernel(f, t) still returns the kernel stored before the call.
C1_DuplicateRegistrationRaises ==
    [][\A ft \in Entries(registry) :
          RegistrationAttempt(ft)' =>
              /\ last'.out = DuplicateError
              /\ registry' = registry
              /\ _get_kernel(registry', ft[1], ft[2], FALSE).out
                     = ReturnKernel(registry[ft[1]][ft[2]])]_vars

\* A second register_kernel(f, T) was refused while (f, T) holds its kernel.
C1_Witness ==
    /\ last.op = "register_kernel"
    /\ last.out = DuplicateError
    /\ <<last.args.functional.v, last.args.datapoint_cls>> \in Entries(registry)

\* C2 (as amended): for a functional f with at least one kernel stored and a
\* Datapoint subtype D with no kernel stored for any class of D's MRO up to and
\* including the Datapoint marker, _get_kernel(f, D, allow_passthrough=False)
\* raises the no-kernel-for-type error, whatever is stored for the classes after
\* the marker; when f has no kernel at all the failure is the
\* functional-not-recognized error instead; and no kernel stored for a class
\* after the marker is ever returned for such a D.
C2_CutoffAtMarker ==
    (/\ IsLookup
     /\ issubclass(last.args.input_type, "Datapoint")
     /\ UpToMarker(last.args.input_type) \cap DOMAIN Bucket(last.args.functional) = {})
    => /\ ~last.args.allow_passthrough =>
              last.out = (IF HasKernels(last.args.functional)
                          THEN NoKernelForTypeError ELSE NotRecognizedError)
       /\ last.out.kind = "kernel" => last.out.kernel = Passthrough

\* C2 as stated: the failure is the no-kernel-for-type error for every functional.
C2_Original ==
    (/\ IsLookup
     /\ issubclass(last.args.input_type, "Datapoint")
     /\ UpToMarker(last.args.input_type) \cap DOMAIN Bucket(last.args.functional) = {}
     /\ ~last.args.allow_passthrough)
    => last.out = NoKernelForTypeError

\* A lookup for MyDatapoint failed although torch.Tensor has a kernel stored.
C2_Witness ==
    /\ IsLookup
    /\ last.args.input_type = "MyDatapoint"
    /\ ~last.args.allow_passthrough
    /\ "Tensor" \in DOMAIN Bucket(last.args.functional)
    /\ UpToMarker("MyDatapoint") \cap DOMAIN Bucket(last.args.functional) = {}
    /\ last.out = NoKernelForTypeError

\* C3 (as amended): _get_kernel(f, S) returns the kernel stored for the first
\* class of S's MRO, among the classes up to and including the Datapoint marker
\* (the whole MRO when S is no Datapoint), that has a kernel stored for f; with
\* kernels stored for a subtype S and its parent P it returns S's kernel.
C3_AncestryPrecedence ==
    (/\ IsLookup
     /\ UpToMarker(last.args.input_type) \cap DOMAIN Bucket(last.args.functional) # {})
    => last.out = ReturnKernel(
           Bucket(last.args.functional)[
               FirstRegistered(last.args.functional, last.args.input_type,
                               UpToMarker(last.args.input_type))])

\* C3 as stated: the first registered class of the whole MRO decides.
C3_Original ==
    (/\ IsLookup
     /\ Range(__mro__[last.args.input_type]) \cap DOMAIN Bucket(last.args.functional) # {})
    => last.out = ReturnKernel(
           Bucket(last.args.functional)[
               FirstRegistered(last.args.functional, last.args.input_type,
                               Range(__mro__[last.args.input_type]))])

\* With different kernels stored for MySubDatapoint and for its parent
\* MyDatapoint, the lookup for MySubDatapoint returned the subtype's kernel.
C3_Witness ==
    /\ IsLookup
    /\ last.args.input_type = "MySubDatapoint"
    /\ {"MySubDatapoint", "MyDatapoint"} \subseteq DOMAIN Bucket(last.args.functional)
    /\ Bucket(last.args.functional)["MySubDatapoint"] # Bucket(last.args.functional)["MyDatapoint"]
    /\ last.out = ReturnKernel(Bucket(last.args.functional)["MySubDatapoint"])

\* The last call applied, to a kernel, the decorator that register_kernel had
\* just returned: register_kernel(f, T)(k).
PublicRegistration == last.op = "decorator" /\ last.args.returned_by = "register_kernel"

\* What a kernel function does when called directly with inpt and arg.
DirectCall(fn, inpt, arg) ==
    [out |-> CallFunction(fn, inpt, arg), calls |-> <<[fn |-> fn, inpt |-> inpt, arg |-> arg]>>]

\* C4 (as amended): after a successful register_kernel(f, T)(k) for a custom
\* Datapoint subtype T the kernel stored for (f, T) is k itself: called with an
\* input it hands k that input as it is, and returns k's output as it is.
C4_PublicRegistrationStoresRawKernel ==
    PublicRegistration =>
        LET d == last.args.decorator
            k == last.args.kernel
            stored == Bucket(d.functional)[d.input_type]
        IN /\ CustomDatapointClass(d.input_type)
           /\ stored = k
           /\ \A x \in Inputs, a \in Args : Invoke(stored, x, a) = DirectCall(k.fn, x, a)

\* C4 as stated: the kernel stored is k under the datapoint wrapper.
C4_Original ==
    PublicRegistration =>
        LET d == last.args.decorator
            k == last.args.kernel
        IN Bucket(d.functional)[d.input_type] = [fn |-> k.fn, wrappers |-> <<"datapoint">>]

\* register_kernel(f, MyDatapoint)(k) has stored a kernel.
C4_Witness ==
    /\ PublicRegistration
    /\ last.args.decorator.input_type = "MyDatapoint"
    /\ "MyDatapoint" \in DOMAIN Bucket(last.args.decorator.functional)

\* C5: for a functional with no kernel stored _get_kernel raises the
\* functional-not-recognized error, for every input type and both values of
\* allow_passthrough; that error is raised in no other case, and it is not the
\* no-kernel-for-type error, which is raised only for a functional with kernels.
C5_FunctionalNotRecognized ==
    IsLookup =>
        /\ ~HasKernels(last.args.functional) <=> last.out = NotRecognizedError
        /\ last.out = NoKernelForTypeError => HasKernels(last.args.functional)
        /\ NotRecognizedError.exc # NoKernelForTypeError.exc

\* A lookup with allow_passthrough for a functional whose bucket exists and is
\* empty raised the functional-not-recognized error.
C5_Witness ==
    /\ IsLookup
    /\ last.args.allow_passthrough
    /\ last.args.functional \in DOMAIN registry
    /\ ~HasKernels(last.args.functional)
    /\ last.out = NotRecognizedError

\* The last call was a lookup, with allow_passthrough, for a functional with
\* kernels and a type for which the walk of the MRO finds none.
UnmatchedPassthroughLookup ==
    /\ IsLookup
    /\ last.args.allow_passthrough
    /\ HasKernels(last.args.functional)
    /\ UpToMarker(last.args.input_type) \cap DOMAIN Bucket(last.args.functional) = {}

\* C6: _get_kernel(f, D, allow_passthrough=True) for a functional with kernels
\* and a type the walk finds no kernel for returns a kernel, and that kernel
\* called with any input and extra argument returns the input unchanged and
\* calls no registered kernel.
C6_Passthrough ==
    [][/\ UnmatchedPassthroughLookup' => last'.out.kind = "kernel"
       /\ (UnmatchedPassthroughLookup /\ last'.op = "kernel") =>
              /\ last'.args.kernel = last.out.kernel
              /\ last'.out.value = last'.args.inpt
              /\ last'.out.calls = <<>>]_vars

\* The passthrough kernel was called with a datapoint and an extra argument.
C6_Witness ==
    /\ last.op = "kernel"
    /\ last.args.kernel = Passthrough
    /\ last.args.inpt.type = "MySubDatapoint"
    /\ last.args.arg = 1
    /\ last.out.value = last.args.inpt

\* C7: register_kernel(f, T) raises ValueError whenever T is no class that
\* subclasses Datapoint and whenever T is a built-in datapoint class (the
\* Datapoint marker among them), with the message of that check when f is
\* accepted, and leaves registry and decorators as they were; no call of
\* register_kernel adds or replaces an entry, the decorators it returns are for
\* custom datapoint classes, and applying one changes no entry of another class.
C7_PublicRegistrationRejectsTypes ==
    [][/\ last'.op = "register_kernel" =>
              /\ ~CustomDatapointClass(last'.args.datapoint_cls) =>
                     /\ last'.out.kind = "raise"
                     /\ last'.out.exc = "ValueError"
                     /\ AcceptedFunctional(last'.args.functional) =>
                            last'.out.msg =
                                (IF last'.args.datapoint_cls \in {"Datapoint", "Image"}
                                 THEN "builtin_datapoint_class"
                                 ELSE "not_a_datapoint_subclass")
                     /\ registry' = registry
                     /\ decorators' = decorators
              /\ Entries(registry') = Entries(registry)
              /\ \A ft \in Entries(registry) : registry'[ft[1]][ft[2]] = registry[ft[1]][ft[2]]
              /\ last'.out.kind = "decorator" =>
                     CustomDatapointClass(last'.out.decorator.input_type)
       /\ PublicRegistration' =>
              \A ft \in Entries(registry') :
                  (ft \notin Entries(registry) \/ registry'[ft[1]][ft[2]] # registry[ft[1]][ft[2]])
                      => CustomDatapointClass(ft[2])]_vars

\* register_kernel for the built-in class Image was refused for a valid functional.
C7_Witness ==
    /\ last.op = "register_kernel"
    /\ AcceptedFunctional(last.args.functional)
    /\ last.args.datapoint_cls = "Image"
    /\ last.out = Raise("ValueError", "builtin_datapoint_class")

\* C8: register_kernel given a string that is no attribute of the functional
\* namespace raises the name-lookup error, and given a non-string that is no
\* callable of the namespace raises the invalid-functional error; both for every
\* datapoint class, valid or not, and with the registry left as it was.
C8_FunctionalArgumentChecks ==
    [][last'.op = "register_kernel" =>
          LET arg == last'.args.functional IN
          arg.v \notin Functionals =>
              /\ last'.out = (IF arg.isstr
                              THEN Raise("ValueError", "functional_name_not_found")
                              ELSE Raise("ValueError", "not_a_v2_functional"))
              /\ registry' = registry
              /\ decorators' = decorators]_vars

\* An unknown name was refused although the datapoint class was invalid too.
C8_Witness ==
    /\ last.op = "register_kernel"
    /\ last.args.functional = [isstr |-> TRUE, v |-> "does_not_exist"]
    /\ last.args.datapoint_cls = NotAClass
    /\ last.out = Raise("ValueError", "functional_name_not_found")

\* C9: the wrapper _kernel_datapoint_wrapper makes of a kernel k, called with x
\* and an extra argument, calls k once, with the plain torch.Tensor view of x and
\* the same argument, and returns k's output with the type and the metadata of x.
C9_AutoWrapComposition ==
    (last.op = "kernel" /\ last.args.kernel.wrappers = <<"datapoint">>) =>
        LET x == last.args.inpt
            fn == last.args.kernel.fn
            plain == [type |-> "Tensor", data |-> x.data, meta |-> "none", items |-> <<>>]
        IN /\ last.out.calls = <<[fn |-> fn, inpt |-> plain, arg |-> last.args.arg]>>
           /\ last.out.value = [type |-> x.type,
                                data |-> CallFunction(fn, plain, last.args.arg).data,
                                meta |-> x.meta, items |-> <<>>]

\* A wrapped kernel was called with a MySubDatapoint and returned one.
C9_Witness ==
    /\ last.op = "kernel"
    /\ last.args.kernel.wrappers = <<"datapoint">>
    /\ last.args.inpt.type = "MySubDatapoint"
    /\ last.out.value.type = "MySubDatapoint"
    /\ last.out.value.meta = "format_b"

\* C10: no step removes a bucket or an entry of the registry, and a call of
\* _get_kernel leaves the whole registry as it was, whatever it returns or raises.
C10_AppendOnlyReadOnlyLookup ==
    [][/\ DOMAIN registry \subseteq DOMAIN registry'
       /\ Entries(registry) \subseteq Entries(registry')
       /\ last'.op = "_get_kernel" => registry' = registry]_vars

\* A lookup for a functional without a bucket raised, and no bucket was made.
C10_Witness ==
    /\ IsLookup
    /\ last.args.functional \notin DOMAIN registry
    /\ Entries(registry) # {}
    /\ last.out = NotRecognizedError

\* C11: under any interleaving of factory calls and decorator applications, once
\* a kernel is stored for a (functional, type) pair no later step stores another
\* kernel for that pair, and _get_kernel for the pair keeps returning the same
\* kernel, also when two decorators for the pair were obtained before either was
\* applied.
C11_StoredKernelNeverChanges ==
    [][\A ft \in Entries(registry) :
          /\ ft \in Entries(registry')
          /\ registry'[ft[1]][ft[2]] = registry[ft[1]][ft[2]]
          /\ _get_kernel(registry', ft[1], ft[2], FALSE).out
                 = _get_kernel(registry, ft[1], ft[2], FALSE).out]_vars

\* C12: after _register_kernel_internal(f, T, datapoint_wrapper=w)(k) the entry
\* stored for (f, T) is the datapoint wrapper around k when T is a Datapoint
\* subtype and w is true, and k itself in every other case.
C12_WrapperOnlyForDatapointWithFlag ==
    (last.op = "decorator" /\ last.args.decorator.pathway = "internal") =>
        LET d == last.args.decorator
            k == last.args.kernel
        IN  /\ <<d.functional, d.input_type>> \in Entries(registry)
            /\ registry[d.functional][d.input_type]
                   = IF "Datapoint" \in Range(__mro__[d.input_type]) /\ d.datapoint_wrapper
                     THEN [fn |-> k.fn, wrappers |-> <<"datapoint">> \o k.wrappers]
                     ELSE k

\* A decorator for the plain Tensor type, made with datapoint_wrapper=True, has
\* stored the kernel unwrapped.
C12_Witness ==
    /\ last.op = "decorator"
    /\ last.args.decorator.pathway = "internal"
    /\ last.args.decorator.input_type = "Tensor"
    /\ last.args.decorator.datapoint_wrapper
    /\ registry[last.args.decorator.functional]["Tensor"] = last.args.kernel

\* The last call (primed: the call of this step) asked the multi-output pathway
\* for a decorator for the (functional, type) pair ft.
FiveTenCropAttempt(ft) ==
    /\ last.op = "_register_five_ten_crop_kernel_internal"
    /\ <<last.args.functional, last.args.input_type>> = ft

InternalAttempt(ft) ==
    /\ last.op = "_register_kernel_internal"
    /\ <<last.args.functional, last.args.input_type>> = ft

\* C13: for a (functional, type) pair that has a kernel stored by either pathway,
\* _register_five_ten_crop_kernel_internal(f, t) fails with the same
\* duplicate-registration error as _register_kernel_internal(f, t) does, and
\* both leave the stored entry as it was.
C13_SameDuplicateErrorInBothPathways ==
    [][\A ft \in Entries(registry) :
          (FiveTenCropAttempt(ft)' \/ InternalAttempt(ft)') =>
              /\ last'.out = DuplicateError
              /\ registry' = registry]_vars

\* C14: for a Datapoint subtype, the decorator of
\* _register_five_ten_crop_kernel_internal stores a wrapper that calls the kernel
\* once, with the input as it was given (not unwrapped) and the same extra
\* argument, and returns a collection of the kernel's container type, of the same
\* length and order, each element rewrapped like the input; for any other type
\* the decorator stores the kernel itself.
C14_MultiOutputWrapping ==
    /\ (last.op = "decorator" /\ last.args.decorator.pathway = "five_ten_crop") =>
           LET d == last.args.decorator
               k == last.args.kernel
           IN  registry[d.functional][d.input_type]
                   = IF "Datapoint" \in Range(__mro__[d.input_type])
                     THEN [fn |-> k.fn, wrappers |-> <<"five_ten_crop">> \o k.wrappers]
                     ELSE k
    /\ (last.op = "kernel" /\ last.args.kernel.wrappers = <<"five_ten_crop">>) =>
           LET x == last.args.inpt
               fn == last.args.kernel.fn
               output == CallFunction(fn, x, last.args.arg)
               value == last.out.value
           IN  /\ last.out.calls = <<[fn |-> fn, inpt |-> x, arg |-> last.args.arg]>>
               /\ value.type = output.type
               /\ Len(value.items) = Len(output.items)
               /\ \A i \in DOMAIN output.items :
                      value.items[i] = [type |-> x.type,
                                        data |-> output.items[i].data,
                                        meta |-> x.meta]

\* The multi-output wrapper stored for Image was called with an Image and
\* returned a tuple of two Images, the kernel having seen the Image itself.
C14_Witness ==
    /\ last.op = "kernel"
    /\ last.args.kernel.wrappers = <<"five_ten_crop">>
    /\ last.args.inpt.type = "Image"
    /\ last.out.calls[1].inpt.type = "Image"
    /\ last.out.value.type = "tuple"
    /\ Len(last.out.value.items) = 2
    /\ \A i \in 1..2 : last.out.value.items[i].type = "Image"

\* The last call (primed: the call of this step) was a registration call that raised.
FailedRegistration ==
    /\ last.op \in {"_register_kernel_internal", "register_kernel",
                    "_register_five_ten_crop_kernel_internal"}
    /\ last.out.kind = "raise"

\* The functional the last call (primed: the call of this step) asked to register
\* a kernel for; none when register_kernel did not accept its functional argument.
NamedFunctional ==
    IF last.op = "register_kernel"
    THEN IF AcceptedFunctional(last.args.functional) THEN {last.args.functional.v} ELSE {}
    ELSE {last.args.functional}

\* C15: a registration call that fails, in register_kernel or in either internal
\* pathway, leaves the registry as it was: no bucket and no entry is made or
\* changed, and _get_kernel, which reads nothing but the registry, gives for the
\* functional of the call, every type and either value of allow_passthrough what
\* it gave before the call.
C15_FailedRegistrationChangesNothing ==
    [][FailedRegistration' =>
          /\ registry' = registry
          /\ decorators' = decorators
          /\ \A f \in NamedFunctional', t \in Types, a \in BOOLEAN :
                 _get_kernel(registry', f, t, a).out = _get_kernel(registry, f, t, a).out]_vars

\* The multi-output pathway refused a pair that keeps its stored kernel.
C15_Witness ==
    /\ last.op = "_register_five_ten_crop_kernel_internal"
    /\ last.out.kind = "raise"
    /\ <<last.args.functional, last.args.input_type>> \in Entries(registry)

\* C16: the decorator of either internal pathway returns the kernel it was given,
\* not the wrapper it stored; in a stack of decorators over one kernel every
\* decorator is given the raw kernel, so every stored entry is the kernel or one
\* wrapper around it, never a wrapper around a wrapper.
C16_DecoratorReturnsOriginalKernel ==
    (last.op = "decorator") =>
        /\ last.out = ReturnKernel(last.args.kernel)
        /\ last.args.kernel.wrappers = <<>>
        /\ \A ft \in Entries(registry) : Len(registry[ft[1]][ft[2]].wrappers) <= 1

\* One kernel was registered for a Datapoint subtype and for Tensor: the first
\* entry is one wrapper around it, the second is the kernel, and the decorator
\* returned the kernel.
C16_Witness ==
    /\ last.op = "decorator"
    /\ last.out = ReturnKernel(RawKernel("double"))
    /\ <<"resize", "MyDatapoint">> \in Entries(registry)
    /\ <<"resize", "Tensor">> \in Entries(registry)
    /\ registry["resize"]["MyDatapoint"] = [fn |-> "double", wrappers |-> <<"datapoint">>]
    /\ registry["resize"]["Tensor"] = RawKernel("double")

\* C17: for a type whose MRO does not hold the Datapoint marker, _get_kernel
\* considers the whole MRO: it returns the kernel of the first class of the MRO
\* that has one (a plain Tensor subclass gets the Tensor kernel), and passes
\* through or raises only when no class of the MRO has a kernel.
C17_FullWalkWithoutMarker ==
    (IsLookup /\ "Datapoint" \notin Range(__mro__[last.args.input_type])) =>
        LET f == last.args.functional
            t == last.args.input_type
            whole == Range(__mro__[t])
        IN  IF ~HasKernels(f)
            THEN last.out = NotRecognizedError
            ELSE IF whole \cap DOMAIN Bucket(f) # {}
            THEN last.out = ReturnKernel(Bucket(f)[FirstRegistered(f, t, whole)])
            ELSE last.out = (IF last.args.allow_passthrough
                             THEN ReturnKernel(Passthrough)
                             ELSE NoKernelForTypeError)

\* A lookup for a plain Tensor subclass that has no kernel of its own returned
\* the kernel stored for Tensor.
C17_Witness ==
    /\ IsLookup
    /\ last.args.input_type = "TensorSub"
    /\ "TensorSub" \notin DOMAIN Bucket(last.args.functional)
    /\ "Tensor" \in DOMAIN Bucket(last.args.functional)
    /\ last.out = ReturnKernel(Bucket(last.args.functional)["Tensor"])

====
